---- MODULE Spec2Model ----
(***************************************************************************)
(* Model of the ENS documentation chat front end: the chat transport       *)
(* (useChat in App.tsx), and the MessageList component that formats,       *)
(* caches, renders, augments and scrolls the conversation                  *)
(* (frontend/src/components/chat/MessageList.tsx).                         *)
(*                                                                         *)
(* Strings.  A message content is markdown source, modelled as a sequence  *)
(* of source pieces (TokenKinds).  An HTML string is modelled as the       *)
(* sequence of top-level elements an HTML parser reads from it; each       *)
(* element lists its descendant elements in document order.                *)
(***************************************************************************)
EXTENDS Integers, Sequences, FiniteSets, TLC

\* ------------------------------------------------------------------ bounds
MaxMsgs == 4
MaxLen == 2
MaxPasses == 2
MaxDist == 200
MaxAug == 2

\* ------------------------------------------------------- program constants
\* "at bottom" threshold in pixels (handleScroll)
PinThreshold == 100

\* ------------------------------------------------------------- small helpers
Last(s) == s[Len(s)]

Min(a, b) == IF a < b THEN a ELSE b

RECURSIVE MapSeq(_, _)
\* s with Op applied to every element (Array.prototype.map / forEach rewriting in place)
MapSeq(Op(_), s) ==
  IF s = <<>> THEN <<>> ELSE <<Op(s[1])>> \o MapSeq(Op, Tail(s))

\* ------------------------------------------------------ markdown and HTML
\* The pieces of markdown source an assistant reply is made of.
TokenKinds ==
  { "text", "link", "fenceKnown", "fenceUnknown", "fenceNoLang",
    "rawIframe", "rawImg", "rawPreMarked" }

\* A descendant element.
Leaf(tag, attrs, cls) == [tag |-> tag, attrs |-> attrs, cls |-> cls]

\* A top-level element: txt names the source piece its text comes from.
Node(tag, attrs, cls, desc, txt) ==
  [tag |-> tag, attrs |-> attrs, cls |-> cls, desc |-> desc, txt |-> txt]

\* Grammars registered in Prism.languages: the frontend imports the prismjs
\* bundle only, without language components.
PrismLanguages == { "javascript" }

\* code.className.match(/language-(\w+)/): the language a class names, "" if none
LanguageOf(cls) ==
  CASE cls = "language-javascript" -> "javascript"
    [] cls = "language-foobar" -> "foobar"
    [] OTHER -> ""

\* marked.parse with { breaks, gfm, langPrefix: "language-" }: one element per piece.
\* Raw HTML in the source is passed through unchanged.
MarkedPiece(t) ==
  CASE t = "text" -> Node("p", {}, "", <<>>, t)
    [] t = "link" -> Node("p", {}, "", <<Leaf("a", {"href"}, "")>>, t)
    [] t = "fenceKnown" ->
         Node("pre", {}, "", <<Leaf("code", {"class"}, "language-javascript")>>, t)
    [] t = "fenceUnknown" ->
         Node("pre", {}, "", <<Leaf("code", {"class"}, "language-foobar")>>, t)
    [] t = "fenceNoLang" -> Node("pre", {}, "", <<Leaf("code", {}, "")>>, t)
    [] t = "rawIframe" -> Node("iframe", {"src"}, "", <<>>, t)
    [] t = "rawImg" -> Node("img", {"src", "onerror"}, "", <<>>, t)
    [] t = "rawPreMarked" ->
         Node("pre", {"class", "data-copy-added"}, "language-javascript",
              <<Leaf("code", {"class"}, "language-javascript")>>, t)

MarkedParse(content) == MapSeq(MarkedPiece, content)

\* The same source read by an HTML parser (assigned to innerHTML unformatted):
\* markdown syntax is text, raw HTML becomes live elements with all attributes.
RawPiece(t) ==
  CASE t = "rawIframe" -> Node("iframe", {"src"}, "", <<>>, t)
    [] t = "rawImg" -> Node("img", {"src", "onerror"}, "", <<>>, t)
    [] t = "rawPreMarked" ->
         Node("pre", {"class", "data-copy-added"}, "language-javascript",
              <<Leaf("code", {"class"}, "language-javascript")>>, t)
    [] OTHER -> Node("#text", {}, "", <<>>, t)

AsHTML(content) == MapSeq(RawPiece, content)

\* DOMPurify's default allowlists, restricted to the names the model uses.
DefaultTags == { "p", "a", "pre", "code", "img", "#text" }

DefaultAttrs == { "href", "src", "rel" }

ADD_TAGS == { "button", "span", "svg", "path", "rect", "polyline" }

ADD_ATTR ==
  { "class", "data-prism-highlighted", "data-copy-added", "target",
    "width", "height", "viewBox", "fill", "stroke", "stroke-width",
    "stroke-linecap", "stroke-linejoin", "points", "x", "y", "rx", "ry", "d" }

AllowedTags == DefaultTags \cup ADD_TAGS

AllowedAttrs == DefaultAttrs \cup ADD_ATTR

SanitizeLeafUnfiltered(l) == l

SanitizeLeaf(l) ==
  [l EXCEPT !.attrs = l.attrs \cap AllowedAttrs,
            !.cls = IF "class" \in AllowedAttrs THEN l.cls ELSE ""]

SanitizeNode(n) ==
  [n EXCEPT !.attrs = SanitizeLeaf(Leaf(n.tag, n.attrs, n.cls)).attrs,
            !.cls = SanitizeLeaf(Leaf(n.tag, n.attrs, n.cls)).cls,
            !.desc = MapSeq(SanitizeLeaf,
                            SelectSeq(n.desc, LAMBDA l : l.tag \in AllowedTags))]

\* DOMPurify.sanitize(rawHTML, { ADD_TAGS, ADD_ATTR }): elements whose tag is not
\* allowed are removed, attributes that are not allowed are removed.
Sanitize(html) ==
  MapSeq(SanitizeNode, SelectSeq(html, LAMBDA n : n.tag \in AllowedTags))

\* 'pre code[class*="language-"]' with an extractable language
IsLanguageCode(l) == l.tag = "code" /\ LanguageOf(l.cls) # ""

\* The language of the first language-tagged code element under a pre, "" if none
BlockLanguage(n) ==
  IF n.tag = "pre" /\ \E i \in 1..Len(n.desc) : IsLanguageCode(n.desc[i])
  THEN LanguageOf(n.desc[CHOOSE i \in 1..Len(n.desc) :
                            /\ IsLanguageCode(n.desc[i])
                            /\ \A j \in 1..(i - 1) : ~IsLanguageCode(n.desc[j])].cls)
  ELSE ""

\* if (language) { if (Prism.languages[language]) { ... } }
HasGrammar(n) == BlockLanguage(n) \in PrismLanguages

HasKnownBlock(html) == \E i \in 1..Len(html) : HasGrammar(html[i])

ClassOfLanguage(lang) ==
  CASE lang = "javascript" -> "language-javascript"
    [] lang = "foobar" -> "language-foobar"
    [] OTHER -> ""

IsTokenSpan(l) == l.tag = "span" /\ l.cls = "token"

\* Prism.highlightElement: names the language on the code element and its pre,
\* then replaces the code's markup by the tokenized text (element.innerHTML = ...).
HighlightElement(n) ==
  [n EXCEPT !.cls = ClassOfLanguage(BlockLanguage(n)),
            !.attrs = @ \cup {"class"},
            !.desc = SelectSeq(@, LAMBDA l : ~IsTokenSpan(l))
                       \o <<Leaf("span", {"class"}, "token")>>]

\* Prism.highlightElement throwing in the tokenizer: the language classes are
\* already set, the code's markup is not replaced.
HighlightThrown(n) ==
  [n EXCEPT !.cls = ClassOfLanguage(BlockLanguage(n)), !.attrs = @ \cup {"class"}]

HighlightBlockAnyLanguage(n, hlThrows) ==
  IF n.tag = "pre" THEN HighlightElement(n) ELSE n

\* The body of codeBlocks.forEach for the code element under n
HighlightBlock(n, hlThrows) ==
  IF HasGrammar(n)
  THEN IF hlThrows THEN HighlightThrown(n) ELSE HighlightElement(n)
  ELSE n

\* codeBlocks.forEach(...) over the temporary DOM
HighlightAll(html, hlThrows) ==
  MapSeq(LAMBDA n : HighlightBlock(n, hlThrows), html)

HighlightEscapesRethrown(hlThrows) == hlThrows

\* try { Prism.highlightElement(code) } catch (error) { console.error(...) }:
\* whether an error of the highlighter leaves the forEach callback
HighlightEscapes(hlThrows) == FALSE

LinkLeaf(l) ==
  IF l.tag = "a" THEN [l EXCEPT !.attrs = @ \cup {"target", "rel"}] ELSE l

\* links.forEach: target="_blank" rel="noopener noreferrer"
LinkAttrs(n) == [n EXCEPT !.desc = MapSeq(LinkLeaf, @)]

AddLinkTargets(html) == MapSeq(LinkAttrs, html)

\* The outcome of a call: it threw, or it returned html.
Threw == [threw |-> TRUE, html |-> <<>>]

Returned(html) == [threw |-> FALSE, html |-> html]

\* formatAndHighlightMessage(content).  parseThrows: marked.parse or
\* DOMPurify.sanitize raises; hlThrows: Prism.highlightElement raises.
formatAndHighlightMessage(content, parseThrows, hlThrows) ==
  IF parseThrows
  THEN Threw
  ELSE LET sanitizedHTML == Sanitize(MarkedParse(content))
       IN IF hlThrows /\ HasKnownBlock(sanitizedHTML) /\ HighlightEscapes(hlThrows)
          THEN Threw
          ELSE Returned(AddLinkTargets(HighlightAll(sanitizedHTML, hlThrows)))

\* ------------------------------------------------------------ MessageList
VARIABLES
  messages,           \* useChat's message list: <<[id, role, content]>>
  status,             \* useChat's status
  formattedMessages,  \* useState<Record<string, string>>: message id -> HTML
  passes,             \* processMessages calls in flight: <<[snap, mounted]>>
  shouldAutoScroll,   \* useState(true)
  lastMessageRole,    \* useRef<string | null>
  dist,               \* scrollHeight - scrollTop - clientHeight of the container
  scrollEvt,          \* a scroll event is queued for handleScroll
  raf,                \* a requestAnimationFrame(addCopyButtons) is scheduled
  dom,                \* the live subtree under each assistant bubble
  errLog,             \* what the last completed pass wrote to console.error
  ev                  \* the last step taken, and whether it called scrollIntoView

\* The page around the list (App.tsx)
VARIABLES
  isStreaming         \* useState(false): set by onResponse, cleared by onFinish

appVars == <<isStreaming>>

\* One copy control of a code block (addCopyButtons, lines 149-192)
VARIABLES
  codeText,           \* codeElement.textContent
  clipboardApi,       \* navigator.clipboard exists
  copyButton,         \* which of the control's two icons carry the class "hidden"
  pendingWrites,      \* navigator.clipboard.writeText promises not yet settled
  pendingTimers,      \* setTimeout callbacks not yet run
  clicks,             \* clicks made on the control
  clipboard,          \* the text last written to the clipboard
  copyErrors,         \* console.error calls of the click handler
  escaped,            \* an error left the click handler
  cev                 \* the last step of the control, and the control before it

rendererVars ==
  <<messages, status, formattedMessages, passes, shouldAutoScroll,
    lastMessageRole, dist, scrollEvt, raf, dom, errLog, ev>>

copyVars ==
  <<codeText, clipboardApi, copyButton, pendingWrites, pendingTimers, clicks,
    clipboard, copyErrors, escaped, cev>>

\* The website's MessageList (website/components/chat/MessageList.tsx)
VARIABLES
  scheduled           \* pending setupCodeBlocks calls: "effect", "raf", "timeout"

siteVars == <<scheduled>>

\* The chat route of the server (website/app/api/chat/route.ts)
VARIABLES
  request,            \* the request POST is handling
  response,           \* what POST returned
  extCalls,           \* the external calls POST made, in order
  produced,           \* the chunks the model's stream has yielded, in order
  body,               \* the chunks enqueued to the response stream, in order
  streamState,        \* the response stream: "none", "open", "closed", "errored"
  closes,             \* controller.close() calls
  raised,             \* what raised inside POST's try, "none" if nothing
  chatHistory,        \* the history handed to chatEngine.chat
  reqMessages         \* the request's messages array when POST returns

serverVars == <<request, response, extCalls, produced, body, streamState, closes,
                raised, chatHistory, reqMessages>>

\* The component's life and the page's loading phrase
VARIABLES
  listMounted,        \* MessageList is mounted
  loadingMessage,     \* App: the loadingMessage state
  currentIndex,       \* the loading effect's currentIndex
  interval            \* the loading effect's interval is set

lifeVars == <<listMounted>>

loadVars == <<loadingMessage, currentIndex, interval>>

\* The variables no step of the renderer touches
restVars == <<copyVars, siteVars, serverVars, lifeVars>>

vars == <<rendererVars, appVars, restVars, loadVars>>

EmptyMap == [x \in {} |-> <<>>]

\* What the user can type.
UserInputs == { <<"rawImg">> }

\* The pieces streamed in the rendering specification
StreamTokens == { "fenceKnown", "rawIframe" }

\* Layout growth of one update, in pixels.
Growth == { 0, PinThreshold }

\* Where the user can scroll to, as a distance from the bottom in pixels.
Positions == { 0, PinThreshold - 1, PinThreshold, MaxDist }

ProcessesEveryRole(m) == TRUE

\* if (message.role === "assistant")
ShouldFormat(m) == m.role = "assistant"

FormattedIds(msgs) == { i \in 1..Len(msgs) : ShouldFormat(msgs[i]) }

AssistantIds(msgs) == { i \in 1..Len(msgs) : msgs[i].role = "assistant" }

ContentOfLast(snap, i) == Last(snap).content

\* message.content of the message the loop is at
ContentOf(snap, i) == snap[i].content

\* try { newFormattedMessages[id] = await formatAndHighlightMessage(content) }
\* catch (error) { newFormattedMessages[id] = message.content }
FormatOrFallback(content, parseThrows, hlThrows) ==
  LET r == formatAndHighlightMessage(content, parseThrows, hlThrows)
  IN IF r.threw THEN AsHTML(content) ELSE r.html

NewFormattedMessagesLastOnly(snap, F, H) ==
  [i \in { j \in FormattedIds(snap) : \A k \in FormattedIds(snap) : k <= j } |->
     FormatOrFallback(ContentOf(snap, i), i \in F, i \in H)]

NewFormattedMessagesAborting(snap, F, H) ==
  [i \in { j \in FormattedIds(snap) : \A f \in F : j < f } |->
     FormatOrFallback(ContentOf(snap, i), i \in F, i \in H)]

\* newFormattedMessages after the loop of processMessages over snap
NewFormattedMessages(snap, F, H) ==
  [i \in FormattedIds(snap) |->
     FormatOrFallback(ContentOf(snap, i), i \in F, i \in H)]

\* Assistant messages of snap whose formatting reaches a Prism.highlightElement call
HighlightCallers(snap) ==
  { i \in FormattedIds(snap) : HasKnownBlock(Sanitize(MarkedParse(ContentOf(snap, i)))) }

WritesAlways(pass) == TRUE

\* if (isMounted) setFormattedMessages(newFormattedMessages)
CanWrite(pass) == pass.mounted

\* __html: formattedMessages[message.id] || message.content
InnerHTML(m, cache) ==
  IF m.id \in DOMAIN cache /\ cache[m.id] # <<>>
  THEN cache[m.id]
  ELSE AsHTML(m.content)

\* What the render shows for a message: HTML for an assistant, text otherwise
Rendered(m, cache) ==
  IF m.role = "assistant"
  THEN [as |-> "html", html |-> InnerHTML(m, cache), text |-> <<>>]
  ELSE [as |-> "text", html |-> <<>>, text |-> m.content]

\* A subtree as innerHTML assignment leaves it; n counts the addCopyButtons
\* passes made over it since
Assigned(html) == [html |-> html, n |-> 0]

\* React commit: an element's innerHTML is reassigned only when __html changed
Commit(newMsgs, newCache) ==
  dom' = [i \in AssistantIds(newMsgs) |->
            IF i \in DOMAIN dom
               /\ InnerHTML(newMsgs[i], newCache) = InnerHTML(messages[i], formattedMessages)
            THEN dom[i]
            ELSE Assigned(InnerHTML(newMsgs[i], newCache))]

CopyButton == Leaf("button", {"class"}, "code-copy-button")

IsCopyButton(l) == l.tag = "button" /\ l.cls = "code-copy-button"

SelectedIgnoringMarker(n) == n.tag = "pre" /\ LanguageOf(n.cls) # ""

\* 'pre[class*="language-"]:not([data-copy-added="true"])'
Selected(n) ==
  /\ n.tag = "pre"
  /\ LanguageOf(n.cls) # ""
  /\ "data-copy-added" \notin n.attrs

\* pre.querySelector('code[class*="language-"]')
HasLanguageCode(n) == \E k \in 1..Len(n.desc) : IsLanguageCode(n.desc[k])

\* The body of pres.forEach
AugmentPre(n) ==
  IF Selected(n)
  THEN IF HasLanguageCode(n)
       THEN [n EXCEPT !.attrs = @ \cup {"data-copy-added"},
                      !.desc = Append(@, CopyButton)]
       ELSE [n EXCEPT !.attrs = @ \cup {"data-copy-added"}]
  ELSE n

addCopyButtons(html) == MapSeq(AugmentPre, html)

Unmount(pass) == [pass EXCEPT !.mounted = FALSE]

StartNoPass(newMsgs) == passes' = MapSeq(Unmount, passes)

\* The [messages] effect: cleanup of the previous run, then processMessages()
StartPass(newMsgs) ==
  passes' = Append(MapSeq(Unmount, passes), [snap |-> newMsgs, mounted |-> TRUE])

IsNewUserMessage(msgs, lastRole) ==
  /\ Len(msgs) > 0
  /\ Last(msgs).role = "user"
  /\ Last(msgs).role # lastRole

ScrollsAlways(flag, isNew) == TRUE

\* if (shouldAutoScroll || isNewUserMessage)
ShouldScroll(flag, isNew) == flag \/ isNew

\* The [formattedMessages, messages.length, shouldAutoScroll] effect, run with
\* the layout at distance d from the bottom and evt scroll events queued
ScrollEffect(kind, msgs, flag, d, evt) ==
  LET doScroll == ShouldScroll(flag, IsNewUserMessage(msgs, lastMessageRole))
  IN /\ dist' = IF doScroll THEN 0 ELSE d
     /\ scrollEvt' = (evt \/ (doScroll /\ d # 0))
     /\ lastMessageRole' = IF Len(msgs) > 0 THEN Last(msgs).role ELSE "null"
     /\ raf' = TRUE
     /\ ev' = [kind |-> kind, scrolled |-> doScroll]

\* A render after which the scroll effect's dependencies are unchanged
NoScrollEffect(kind, d) ==
  /\ dist' = d
  /\ ev' = [kind |-> kind, scrolled |-> FALSE]
  /\ UNCHANGED <<scrollEvt, lastMessageRole, raf>>

\* No website component is under study
SiteIdle == scheduled = {}

NoRequest == [variant |-> 0, json |-> FALSE, hasMessages |-> FALSE, roles |-> <<>>,
              customerId |-> [present |-> FALSE, value |-> 0]]

NoResponse == [kind |-> "none", status |-> 0, detail |-> ""]

\* const messages = [...] of the loading effect
Phrases == << "Looking up sources...", "Getting relevant chunks...", "Creating answer..." >>

\* useState("Looking up sources..."), no interval set; MessageList mounted
PageIdle ==
  /\ listMounted = TRUE
  /\ loadingMessage = "Looking up sources..."
  /\ currentIndex = 0
  /\ interval = FALSE

\* The loading effect runs with isLoading true: let currentIndex = 0; setInterval
StartInterval ==
  /\ currentIndex' = 0
  /\ interval' = TRUE
  /\ UNCHANGED loadingMessage

\* The loading effect's cleanup: clearInterval(interval)
ClearInterval ==
  /\ interval' = FALSE
  /\ UNCHANGED <<loadingMessage, currentIndex>>

\* The server has received nothing
ServerIdle ==
  /\ request = NoRequest
  /\ response = NoResponse
  /\ extCalls = <<>>
  /\ produced = <<>>
  /\ body = <<>>
  /\ streamState = "none"
  /\ closes = 0
  /\ raised = "none"
  /\ chatHistory = <<>>
  /\ reqMessages = <<>>

\* ------------------------------------------------------------ copy control
\* Clicks made on one control.
MaxClicks == 4

\* codeElement.textContent: nothing, white space only, or a line of code as
\* marked emits it, with its trailing newline.
CodeTexts == { "", " ", "let x\n" }

\* String.prototype.trim
Trim(t) ==
  CASE t = " " -> ""
    [] t = "let x\n" -> "let x"
    [] OTHER -> t

\* copyButton.innerHTML: <span class="copy-icon"> and <span class="success-icon hidden">
CreatedButton == [copyIconHidden |-> FALSE, successIconHidden |-> TRUE]

\* copyIcon.classList.add("hidden"); successIcon.classList.remove("hidden")
ShowSuccess(b) == [b EXCEPT !.copyIconHidden = TRUE, !.successIconHidden = FALSE]

ShowCopyForgotten(b) == b

\* the setTimeout callback: copyIcon.classList.remove("hidden");
\* successIcon.classList.add("hidden")
ShowCopy(b) == [b EXCEPT !.copyIconHidden = FALSE, !.successIconHidden = TRUE]

ClipboardErrorUncaught == TRUE

\* whether an error of navigator.clipboard.writeText leaves the click handler:
\* the call is awaited inside try { } catch (err) { console.error(...) }
ClipboardErrorEscapes == FALSE

\* The control as addCopyButtons creates it on a code element with the given text
CopyControlCreated(text, api) ==
  /\ codeText = text
  /\ clipboardApi = api
  /\ copyButton = CreatedButton
  /\ pendingWrites = 0
  /\ pendingTimers = 0
  /\ clicks = 0
  /\ clipboard = "none"
  /\ copyErrors = 0
  /\ escaped = FALSE
  /\ cev = [kind |-> "created", before |-> CreatedButton, errorsBefore |-> 0]

CopyEvent(kind) == [kind |-> kind, before |-> copyButton, errorsBefore |-> copyErrors]

\* The click handler up to its await: no text to copy, no clipboard API (the
\* TypeError is raised inside the try block), or a write is started.
Click ==
  /\ clicks < MaxClicks
  /\ clicks' = clicks + 1
  /\ IF Trim(codeText) = ""
     THEN /\ copyErrors' = copyErrors + 1
          /\ cev' = CopyEvent("noText")
          /\ UNCHANGED <<pendingWrites, escaped>>
     ELSE IF ~clipboardApi
          THEN /\ copyErrors' = copyErrors + 1
               /\ escaped' = (escaped \/ ClipboardErrorEscapes)
               /\ cev' = CopyEvent("unavailable")
               /\ UNCHANGED pendingWrites
          ELSE /\ pendingWrites' = pendingWrites + 1
               /\ cev' = CopyEvent("click")
               /\ UNCHANGED <<copyErrors, escaped>>
  /\ UNCHANGED <<codeText, clipboardApi, copyButton, pendingTimers, clipboard>>
  /\ UNCHANGED <<rendererVars, appVars, siteVars, serverVars, lifeVars, loadVars>>

\* The awaited write is fulfilled: the rest of the try block
WriteResolved ==
  /\ pendingWrites > 0
  /\ pendingWrites' = pendingWrites - 1
  /\ clipboard' = Trim(codeText)
  /\ copyButton' = ShowSuccess(copyButton)
  /\ pendingTimers' = pendingTimers + 1
  /\ cev' = CopyEvent("resolved")
  /\ UNCHANGED <<codeText, clipboardApi, clicks, copyErrors, escaped>>
  /\ UNCHANGED <<rendererVars, appVars, siteVars, serverVars, lifeVars, loadVars>>

\* The awaited write is rejected: the catch block
WriteRejected ==
  /\ pendingWrites > 0
  /\ pendingWrites' = pendingWrites - 1
  /\ copyErrors' = copyErrors + 1
  /\ escaped' = (escaped \/ ClipboardErrorEscapes)
  /\ cev' = CopyEvent("rejected")
  /\ UNCHANGED <<codeText, clipboardApi, copyButton, pendingTimers, clicks, clipboard>>
  /\ UNCHANGED <<rendererVars, appVars, siteVars, serverVars, lifeVars, loadVars>>

\* A setTimeout(..., 1000) callback runs
TimerFires ==
  /\ pendingTimers > 0
  /\ pendingTimers' = pendingTimers - 1
  /\ copyButton' = ShowCopy(copyButton)
  /\ cev' = CopyEvent("timer")
  /\ UNCHANGED <<codeText, clipboardApi, pendingWrites, clicks, clipboard,
                 copyErrors, escaped>>
  /\ UNCHANGED <<rendererVars, appVars, siteVars, serverVars, lifeVars, loadVars>>

Init ==
  /\ CopyControlCreated("", TRUE)
  /\ SiteIdle
  /\ ServerIdle
  /\ PageIdle
  /\ isStreaming = FALSE
  /\ messages = <<>>
  /\ status = "ready"
  /\ formattedMessages = EmptyMap
  /\ passes = <<>>
  /\ shouldAutoScroll = TRUE
  /\ lastMessageRole = "null"
  /\ dist = 0
  /\ scrollEvt = FALSE
  /\ raf = FALSE
  /\ dom = EmptyMap
  /\ errLog = [fmt |-> {}, hl |-> {}]
  /\ ev = [kind |-> "init", scrolled |-> FALSE]

\* handleSubmit / append: a user message is appended and the request is sent
Send(G) ==
  \E c \in UserInputs, g \in G :
    /\ status \in {"ready", "error"}
    /\ Len(messages) < MaxMsgs
    /\ Len(passes) < MaxPasses
    /\ dist + g <= MaxDist
    /\ LET new == Append(messages,
                         [id |-> Len(messages) + 1, role |-> "user", content |-> c])
       IN /\ messages' = new
          /\ status' = "submitted"
          /\ StartPass(new)
          /\ Commit(new, formattedMessages)
          /\ ScrollEffect("send", new, shouldAutoScroll, dist + g, scrollEvt)
    /\ UNCHANGED <<formattedMessages, shouldAutoScroll, errLog>>
    /\ UNCHANGED <<appVars, restVars>>
    /\ StartInterval

\* The first chunk of the response: the assistant message appears
FirstByte(T, G) ==
  \E t \in T, g \in G :
    /\ status = "submitted"
    /\ Len(messages) < MaxMsgs
    /\ Len(passes) < MaxPasses
    /\ dist + g <= MaxDist
    /\ LET new == Append(messages,
                         [id |-> Len(messages) + 1, role |-> "assistant",
                          content |-> <<t>>])
       IN /\ messages' = new
          /\ status' = "streaming"
          /\ StartPass(new)
          /\ Commit(new, formattedMessages)
          /\ ScrollEffect("firstByte", new, shouldAutoScroll, dist + g, scrollEvt)
    /\ UNCHANGED <<formattedMessages, shouldAutoScroll, errLog>>
    /\ isStreaming' = TRUE
    /\ UNCHANGED restVars
    /\ ClearInterval

\* A later chunk: the content of the in-flight assistant message grows
Token(T, G) ==
  \E t \in T, g \in G :
    /\ status = "streaming"
    /\ Len(messages) > 0
    /\ Last(messages).role = "assistant"
    /\ Len(Last(messages).content) < MaxLen
    /\ Len(passes) < MaxPasses
    /\ dist + g <= MaxDist
    /\ LET new == [messages EXCEPT ![Len(messages)].content = Append(@, t)]
       IN /\ messages' = new
          /\ StartPass(new)
          /\ Commit(new, formattedMessages)
          /\ NoScrollEffect("token", dist + g)
    /\ UNCHANGED <<status, formattedMessages, shouldAutoScroll, errLog>>
    /\ UNCHANGED <<appVars, restVars, loadVars>>

\* The stream closes
Close ==
  /\ status = "streaming"
  /\ status' = "ready"
  /\ ev' = [kind |-> "close", scrolled |-> FALSE]
  /\ UNCHANGED <<messages, formattedMessages, passes, shouldAutoScroll,
                 lastMessageRole, dist, scrollEvt, raf, dom, errLog>>
  /\ isStreaming' = FALSE
  /\ UNCHANGED <<restVars, loadVars>>

\* The request or the stream fails
Error ==
  /\ status \in {"submitted", "streaming"}
  /\ status' = "error"
  /\ ev' = [kind |-> "error", scrolled |-> FALSE]
  /\ UNCHANGED <<messages, formattedMessages, passes, shouldAutoScroll,
                 lastMessageRole, dist, scrollEvt, raf, dom, errLog>>
  /\ UNCHANGED <<appVars, restVars>>
  /\ ClearInterval

\* The user scrolls the container
UserScroll ==
  \E d \in Positions :
    /\ Len(messages) > 0
    /\ d # dist
    /\ dist' = d
    /\ scrollEvt' = TRUE
    /\ ev' = [kind |-> "userScroll", scrolled |-> FALSE]
    /\ UNCHANGED <<messages, status, formattedMessages, passes, shouldAutoScroll,
                   lastMessageRole, raf, dom, errLog>>
    /\ UNCHANGED <<appVars, restVars, loadVars>>

IsAtBottomInclusive(d) == d <= PinThreshold

\* const isAtBottom = scrollHeight - scrollTop - clientHeight < 100
IsAtBottom(d) == d < PinThreshold

\* handleScroll, and the render it causes when the flag changes
HandleScroll ==
  /\ scrollEvt
  /\ shouldAutoScroll' = IsAtBottom(dist)
  /\ IF shouldAutoScroll' # shouldAutoScroll
     THEN ScrollEffect("handleScroll", messages, shouldAutoScroll', dist, FALSE)
     ELSE /\ scrollEvt' = FALSE
          /\ ev' = [kind |-> "handleScroll", scrolled |-> FALSE]
          /\ UNCHANGED <<dist, lastMessageRole, raf>>
  /\ UNCHANGED <<messages, status, formattedMessages, passes, dom, errLog>>
  /\ UNCHANGED <<appVars, restVars, loadVars>>

\* The animation frame callback: addCopyButtons over the message container
RunRaf ==
  /\ raf
  /\ raf' = FALSE
  /\ dom' = [i \in DOMAIN dom |->
              [html |-> addCopyButtons(dom[i].html), n |-> Min(dom[i].n + 1, MaxAug)]]
  /\ ev' = [kind |-> "raf", scrolled |-> FALSE]
  /\ UNCHANGED <<messages, status, formattedMessages, passes, shouldAutoScroll,
                 lastMessageRole, dist, scrollEvt, errLog>>
  /\ UNCHANGED <<appVars, restVars, loadVars>>

\* The sets of calls that may raise in one pass: any, or none when canFail is off
Failing(canFail, ids) == IF canFail THEN SUBSET ids ELSE { {} }

RemoveAt(s, i) == SubSeq(s, 1, i - 1) \o SubSeq(s, i + 1, Len(s))

\* A processMessages call reaches its end.  F: the messages whose parse raised;
\* H: the messages whose Prism.highlightElement call raised.
CompletePass(canFail) ==
  \E i \in 1..Len(passes) :
    /\ passes' = RemoveAt(passes, i)
    /\ IF CanWrite(passes[i])
       THEN \E F \in Failing(canFail, FormattedIds(passes[i].snap)) :
            \E H \in Failing(canFail, HighlightCallers(passes[i].snap) \ F) :
              LET new == NewFormattedMessages(passes[i].snap, F, H)
              IN /\ formattedMessages' = new
                 /\ errLog' = [fmt |-> { j \in DOMAIN new :
                                          formatAndHighlightMessage(
                                            ContentOf(passes[i].snap, j),
                                            j \in F, j \in H).threw },
                               hl |-> H]
                 /\ Commit(messages, new)
                 /\ ScrollEffect("passDone", messages, shouldAutoScroll, dist, scrollEvt)
       ELSE /\ ev' = [kind |-> "passDropped", scrolled |-> FALSE]
            /\ UNCHANGED <<formattedMessages, errLog, dom, dist, scrollEvt,
                           lastMessageRole, raf>>
    /\ UNCHANGED <<messages, status, shouldAutoScroll>>
    /\ UNCHANGED <<appVars, restVars, loadVars>>

\* ---------------------------------------------------------- specifications
\* Streaming and formatting: no call raises, the viewport stays where it is (no
\* layout growth, no user scroll) and no animation frame fires.
RSend == Send({0})

RFirstByte == FirstByte(StreamTokens, {0})

RToken == Token(StreamTokens, {0})

RCompletePass == CompletePass(FALSE)

Next ==
  \/ RSend
  \/ RFirstByte
  \/ RToken
  \/ Close
  \/ Error
  \/ RCompletePass

Spec == Init /\ [][Next]_vars

\* Scrolling: plain text is streamed, no call raises, the layout grows, the
\* user scrolls and no animation frame fires.
SSend == Send(Growth)

SFirstByte == FirstByte({"text"}, Growth)

SToken == Token({"text"}, Growth)

SCompletePass == CompletePass(FALSE)

NextScroll ==
  \/ SSend
  \/ SFirstByte
  \/ SToken
  \/ Close
  \/ Error
  \/ UserScroll
  \/ HandleScroll
  \/ SCompletePass

SpecScroll == Init /\ [][NextScroll]_vars

\* Formatting and augmenting: the component is mounted with a conversation,
\* either one exchange whose reply has any content, or two exchanges.  Calls
\* may raise, a further user message may be sent, animation frames fire.
SeqsOver(T) == UNION { [1..n -> T] : n \in 1..MaxLen }

UserMsg(i) == [id |-> i, role |-> "user", content |-> <<"rawImg">>]

AssistantMsg(i, c) == [id |-> i, role |-> "assistant", content |-> c]

Conversations ==
  { <<UserMsg(1), AssistantMsg(2, c)>> : c \in SeqsOver(TokenKinds) }
    \cup { <<UserMsg(1), AssistantMsg(2, c[1]), UserMsg(3), AssistantMsg(4, c[2])>> :
             c \in SeqsOver(StreamTokens) \X SeqsOver(StreamTokens) }

\* The component after its first render and effects, given the messages prop
Mounted(msgs) ==
  /\ CopyControlCreated("", TRUE)
  /\ SiteIdle
  /\ ServerIdle
  /\ PageIdle
  /\ isStreaming = FALSE
  /\ messages = msgs
  /\ status = "ready"
  /\ formattedMessages = EmptyMap
  /\ passes = << [snap |-> msgs, mounted |-> TRUE] >>
  /\ shouldAutoScroll = TRUE
  /\ lastMessageRole = Last(msgs).role
  /\ dist = 0
  /\ scrollEvt = FALSE
  /\ raf = TRUE
  /\ dom = [i \in AssistantIds(msgs) |-> Assigned(InnerHTML(msgs[i], EmptyMap))]
  /\ errLog = [fmt |-> {}, hl |-> {}]
  /\ ev = [kind |-> "mount", scrolled |-> TRUE]

InitFormat == \E msgs \in Conversations : Mounted(msgs)

FSend == Send({0})

FCompletePass == CompletePass(TRUE)

NextFormat ==
  \/ FSend
  \/ FCompletePass
  \/ RunRaf

SpecFormat == InitFormat /\ [][NextFormat]_vars

\* The copy control: one reply with a highlighted code block has been
\* formatted, rendered and augmented; its control is clicked, its clipboard
\* writes settle and its timers run.
Settled(msgs) ==
  LET cache == NewFormattedMessages(msgs, {}, {})
  IN /\ messages = msgs
     /\ status = "ready"
     /\ formattedMessages = cache
     /\ passes = <<>>
     /\ shouldAutoScroll = TRUE
     /\ lastMessageRole = Last(msgs).role
     /\ dist = 0
     /\ scrollEvt = FALSE
     /\ raf = FALSE
     /\ dom = [i \in AssistantIds(msgs) |->
                [html |-> addCopyButtons(InnerHTML(msgs[i], cache)), n |-> 1]]
     /\ errLog = [fmt |-> {}, hl |-> {}]
     /\ ev = [kind |-> "raf", scrolled |-> FALSE]

InitCopy ==
  /\ SiteIdle
  /\ ServerIdle
  /\ PageIdle
  /\ isStreaming = FALSE
  /\ Settled(<<UserMsg(1), AssistantMsg(2, <<"fenceKnown">>)>>)
  /\ \E text \in CodeTexts, api \in BOOLEAN : CopyControlCreated(text, api)

NextCopy ==
  \/ Click
  \/ WriteResolved
  \/ WriteRejected
  \/ TimerFires

SpecCopy == InitCopy /\ [][NextCopy]_vars

\* ---------------------------------------------------------------- website
\* DOMPurify keeps data-* attributes by default (ALLOW_DATA_ATTR)
DataAttrs == { "data-copy-added", "data-prism-highlighted" }

\* ADD_ATTR of the website's formatMessage
SiteADD_ATTR ==
  { "class", "width", "height", "viewBox", "fill", "stroke", "stroke-width",
    "stroke-linecap", "stroke-linejoin", "points", "x", "y", "rx", "ry", "d",
    "target" }

SiteAllowedAttrs == DefaultAttrs \cup DataAttrs \cup SiteADD_ATTR

SiteSanitizeLeaf(l) == [l EXCEPT !.attrs = @ \cap SiteAllowedAttrs]

SiteSanitizeNode(n) ==
  [n EXCEPT !.attrs = @ \cap SiteAllowedAttrs,
            !.desc = MapSeq(SiteSanitizeLeaf,
                            SelectSeq(@, LAMBDA l : l.tag \in AllowedTags))]

SiteSanitize(html) ==
  MapSeq(SiteSanitizeNode, SelectSeq(html, LAMBDA n : n.tag \in AllowedTags))

\* formatMessage(content): marked.parse, DOMPurify.sanitize, link targets
formatMessage(content) == AddLinkTargets(SiteSanitize(MarkedParse(content)))

\* The position of the first language-tagged code element under n
CodeIndex(n) ==
  CHOOSE i \in 1..Len(n.desc) :
    /\ IsLanguageCode(n.desc[i])
    /\ \A j \in 1..(i - 1) : ~IsLanguageCode(n.desc[j])

TokenizedAppending(n, grammar) ==
  IF grammar
  THEN SubSeq(n.desc, 1, CodeIndex(n)) \o <<Leaf("span", {"class"}, "token")>>
         \o SubSeq(n.desc, CodeIndex(n) + 1, Len(n.desc))
  ELSE n.desc

\* Prism.highlightElement's element.innerHTML = highlight(element.textContent):
\* the markup inside the code element is replaced by the tokenized text, token
\* spans when the language has a grammar, the encoded text when it has none
Tokenized(n, grammar) ==
  LET d == SelectSeq(n.desc, LAMBDA l : ~IsTokenSpan(l))
      i == CHOOSE i \in 1..Len(d) :
             /\ IsLanguageCode(d[i])
             /\ \A j \in 1..(i - 1) : ~IsLanguageCode(d[j])
  IN IF grammar
     THEN SubSeq(d, 1, i) \o <<Leaf("span", {"class"}, "token")>>
            \o SubSeq(d, i + 1, Len(d))
     ELSE d

\* Prism.highlightElement as highlightAllUnder calls it on a code element
\* selected by 'code[class*="language-"]': the language class is set on the
\* code element and on its pre, then the markup is replaced
SiteHighlightElement(n) ==
  IF n.tag = "pre" /\ HasLanguageCode(n)
  THEN [n EXCEPT !.cls = ClassOfLanguage(BlockLanguage(n)),
                 !.attrs = @ \cup {"class"},
                 !.desc = Tokenized(n, HasGrammar(n))]
  ELSE n

\* Prism.highlightAllUnder(messageContainerRef.current)
highlightAllUnder(html) == MapSeq(SiteHighlightElement, html)

\* 'pre:not([data-copy-added="true"])'
SiteSelected(n) == n.tag = "pre" /\ "data-copy-added" \notin n.attrs

\* The body of pres.forEach in setupCodeBlocks
SiteAugmentPre(n) ==
  IF SiteSelected(n)
  THEN [n EXCEPT !.attrs = @ \cup {"data-copy-added"},
                 !.desc = Append(@, CopyButton)]
  ELSE n

setupCodeBlocks(html) == MapSeq(SiteAugmentPre, highlightAllUnder(html))

\* React assigns innerHTML again only when the __html string has changed
SiteCommit(old, new) ==
  dom' = [i \in AssistantIds(new) |->
            IF i \in DOMAIN dom /\ formatMessage(old[i].content) = formatMessage(new[i].content)
            THEN dom[i]
            ELSE Assigned(formatMessage(new[i].content))]

\* One setupCodeBlocks call over the message container
SitePass(kind) ==
  /\ dom' = [i \in DOMAIN dom |->
              [html |-> setupCodeBlocks(dom[i].html), n |-> Min(dom[i].n + 1, MaxAug)]]
  /\ ev' = [kind |-> kind, scrolled |-> (kind = "effect")]
  /\ UNCHANGED <<messages, status, formattedMessages, passes, shouldAutoScroll,
                 lastMessageRole, dist, scrollEvt, raf, errLog>>
  /\ UNCHANGED <<appVars, copyVars, serverVars, lifeVars, loadVars>>

\* The [messages] effect: scrollIntoView, setupCodeBlocks at once, in the next
\* animation frame and after 1000 ms
SiteEffect ==
  /\ "effect" \in scheduled
  /\ scheduled' = (scheduled \ {"effect"}) \cup {"raf", "timeout"}
  /\ SitePass("effect")

\* The requestAnimationFrame callback
SiteRaf ==
  /\ "effect" \notin scheduled
  /\ "raf" \in scheduled
  /\ scheduled' = scheduled \ {"raf"}
  /\ SitePass("raf")

\* A setTimeout(..., 1000) callback; the timeouts of earlier effects are not
\* cleared and run too
SiteTimeout ==
  /\ "effect" \notin scheduled
  /\ "timeout" \in scheduled
  /\ \E more \in BOOLEAN :
       scheduled' = IF more THEN scheduled ELSE scheduled \ {"timeout"}
  /\ SitePass("timeout")

\* A chunk of the reply arrives: render, cleanup of the previous effect
\* (cancelAnimationFrame), the effect is due
SiteToken ==
  \E t \in StreamTokens :
    /\ status = "streaming"
    /\ "effect" \notin scheduled
    /\ Last(messages).role = "assistant"
    /\ Len(Last(messages).content) < MaxLen
    /\ LET new == [messages EXCEPT ![Len(messages)].content = Append(@, t)]
       IN /\ messages' = new
          /\ SiteCommit(messages, new)
    /\ scheduled' = (scheduled \ {"raf"}) \cup {"effect"}
    /\ ev' = [kind |-> "token", scrolled |-> FALSE]
    /\ UNCHANGED <<status, formattedMessages, passes, shouldAutoScroll,
                   lastMessageRole, dist, scrollEvt, raf, errLog>>
    /\ UNCHANGED <<appVars, copyVars, serverVars, lifeVars, loadVars>>

\* The website's list rendered with a conversation whose last reply is being
\* streamed, before its effect has run
InitSite ==
  /\ CopyControlCreated("", TRUE)
  /\ scheduled = {"effect"}
  /\ isStreaming = TRUE
  /\ ServerIdle
  /\ PageIdle
  /\ \E msgs \in Conversations :
       /\ messages = msgs
       /\ status = "streaming"
       /\ formattedMessages = EmptyMap
       /\ passes = <<>>
       /\ shouldAutoScroll = TRUE
       /\ lastMessageRole = "null"
       /\ dist = 0
       /\ scrollEvt = FALSE
       /\ raf = FALSE
       /\ dom = [i \in AssistantIds(msgs) |-> Assigned(formatMessage(msgs[i].content))]
       /\ errLog = [fmt |-> {}, hl |-> {}]
       /\ ev = [kind |-> "mount", scrolled |-> FALSE]

NextSite ==
  \/ SiteEffect
  \/ SiteRaf
  \/ SiteTimeout
  \/ SiteToken
  \/ Close

SpecSite == InitSite /\ [][NextSite]_vars

\* ------------------------------------------------------------------- chat
\* {isLoading && !isStreaming && (<p>{loadingMessage}</p>)} with
\* isLoading = status === "submitted", inside {hasMessages && (...)}
LoadingShown == Len(messages) > 0 /\ status = "submitted" /\ ~isStreaming

\* An input of white space only: !input.trim() holds of it, !input does not
BlankInputs == { <<" ">> }

\* handleKeyDown: Enter without Shift calls handleSubmit whatever the status
\* and the input; handleSubmit returns only on an empty input.  useChat appends
\* the user message and starts a request; what an earlier response still
\* delivers is left out.
KeySubmit ==
  \E c \in UserInputs \cup BlankInputs :
    /\ status \in {"ready", "error", "submitted", "streaming"}
    /\ Len(messages) < MaxMsgs
    /\ Len(passes) < MaxPasses
    /\ LET new == Append(messages,
                         [id |-> Len(messages) + 1, role |-> "user", content |-> c])
       IN /\ messages' = new
          /\ status' = "submitted"
          /\ StartPass(new)
          /\ Commit(new, formattedMessages)
          /\ ScrollEffect("keySubmit", new, shouldAutoScroll, dist, scrollEvt)
    /\ UNCHANGED <<formattedMessages, shouldAutoScroll, errLog>>
    /\ UNCHANGED <<appVars, restVars>>
    /\ IF status # "submitted" THEN StartInterval ELSE UNCHANGED loadVars

\* The chat as the input allows it to be driven: sends from the idle states,
\* Enter pressed while a request is in flight, the response, its failure.
CSend == Send({0})

CFirstByte == FirstByte(StreamTokens, {0})

CToken == Token(StreamTokens, {0})

CCompletePass == CompletePass(FALSE)

NextChat ==
  \/ CSend
  \/ KeySubmit
  \/ CFirstByte
  \/ CToken
  \/ Close
  \/ Error
  \/ CCompletePass

SpecChat == Init /\ [][NextChat]_vars

\* Streaming to the end: replies made of text and code blocks are streamed,
\* the stream closes, the formatting passes complete and the animation frames
\* run; no call raises and no request fails.
BlockTokens == { "text", "fenceKnown", "fenceUnknown" }

XSend == Send({0})

XFirstByte == FirstByte(BlockTokens, {0})

XToken == Token(BlockTokens, {0})

XCompletePass == CompletePass(FALSE)

NextStream ==
  \/ XSend
  \/ XFirstByte
  \/ XToken
  \/ Close
  \/ XCompletePass
  \/ RunRaf

SpecStream == Init /\ [][NextStream]_vars

\* ------------------------------------------------------------ life cycle
\* The page is left: MessageList unmounts, the cleanup of the [messages] effect
\* clears isMounted of the pass in flight, the cleanup of the scroll effect
\* cancels the animation frame and the loading effect's cleanup clears the
\* interval.
UnmountList ==
  /\ listMounted
  /\ Len(messages) > 0
  /\ listMounted' = FALSE
  /\ passes' = MapSeq(Unmount, passes)
  /\ raf' = FALSE
  /\ ev' = [kind |-> "unmount", scrolled |-> FALSE]
  /\ ClearInterval
  /\ UNCHANGED <<messages, status, formattedMessages, shouldAutoScroll,
                 lastMessageRole, dist, scrollEvt, dom, errLog>>
  /\ UNCHANGED <<appVars, copyVars, siteVars, serverVars>>

\* The first exchange of a conversation, until the page is left: plain text is
\* streamed, no call raises; a pass that was started reaches its end (nothing
\* it awaits can stay pending).
LSend == listMounted /\ messages = <<>> /\ Send({0})

LFirstByte == listMounted /\ FirstByte({"text"}, {0})

LToken == listMounted /\ Token({"text"}, {0})

LClose == listMounted /\ Close

LError == listMounted /\ Error

LCompletePass == CompletePass(FALSE)

NextLive ==
  \/ LSend
  \/ LFirstByte
  \/ LToken
  \/ LClose
  \/ LError
  \/ LCompletePass
  \/ UnmountList

SpecLive == Init /\ [][NextLive]_vars /\ WF_vars(LCompletePass)

\* ---------------------------------------------------------- loading phrase
\* The interval's callback: currentIndex = (currentIndex + 1) % messages.length;
\* setLoadingMessage(messages[currentIndex])
Tick ==
  /\ interval
  /\ currentIndex' = (currentIndex + 1) % Len(Phrases)
  /\ loadingMessage' = Phrases[currentIndex' + 1]
  /\ UNCHANGED interval
  /\ UNCHANGED <<rendererVars, appVars, restVars>>

\* Requests one after the other, answered or failing, with the interval
\* ticking while it is set; plain text is streamed and no call raises.
PSend == Send({0})

PFirstByte == FirstByte({"text"}, {0})

PCompletePass == CompletePass(FALSE)

NextLoading ==
  \/ PSend
  \/ PFirstByte
  \/ Close
  \/ Error
  \/ PCompletePass
  \/ Tick

SpecLoading == Init /\ [][NextLoading]_vars

\* ----------------------------------------------------------------- server
\* Customer ids a request can carry.
MaxCustomerId == 2

\* Chunks the model's stream yields for one reply.
MaxChunks == 3

\* The role lists of the requests' messages
RoleLists ==
  { <<>>, <<"user">>, <<"user", "assistant">>, <<"user", "assistant", "user">>,
    <<"system", "user">> }

CustomerIds ==
  { [present |-> FALSE, value |-> 0] }
    \cup { [present |-> TRUE, value |-> v] : v \in 0..MaxCustomerId }

\* The requests: the chat route's file holds two variants of the route, 1 (with
\* retrieval) and 2; 3 is the stripe chat route.  The body may not parse as
\* JSON or may lack the messages list
Requests ==
  [variant : {1, 2, 3}, json : BOOLEAN, hasMessages : BOOLEAN, roles : RoleLists,
   customerId : CustomerIds]

\* What a chunk of the model's stream is: without a message, or with a
\* message whose content is empty or a piece of text
ChunkKinds == { "noMessage", "empty", "a", "b" }

\* chunk.message?.content || ""
ChunkContent(chunk) ==
  CASE chunk = "a" -> "a"
    [] chunk = "b" -> "b"
    [] OTHER -> ""

RejectsOnlyMissing(c) == ~c.present

\* if (!customerId)
RejectsCustomerId(c) == ~c.present \/ c.value = 0

\* if (!userMessage || userMessage.role !== "user")
RejectsLastMessage(roles) == roles = <<>> \/ Last(roles) # "user"

Json(code, detail) == [kind |-> "json", status |-> code, detail |-> detail]

Streamed == [kind |-> "stream", status |-> 200, detail |-> ""]

\* LlamaIndexAdapter.toDataStreamResponse(...): the stripe route's reply
DataStreamed == [kind |-> "dataStream", status |-> 200, detail |-> ""]

\* The external calls made up to the response: searchDocs in variant 1 only,
\* then chatEngine.chat unless searchDocs raised
CallsMade(r, searchThrows) ==
  IF r.variant = 1
  THEN IF searchThrows THEN <<"searchDocs">> ELSE <<"searchDocs", "chat">>
  ELSE <<"chat">>

\* The request's messages; a message is identified by its position
RequestMessages(r) ==
  [i \in 1..Len(r.roles) |->
     [role |-> r.roles[i], idx |-> i, prompt |-> FALSE, context |-> 0]]

\* The server's system message: SYSTEM_PROMPT + " " + CUSTOMER_PROMPT, in
\* variant 1 followed by searchResponse.response, the context retrieved for
\* userMessage.content (context: the position of the message searched for)
SystemMessage(r) ==
  [role |-> "system", idx |-> 0, prompt |-> TRUE,
   context |-> IF r.variant = 1 THEN Len(r.roles) ELSE 0]

ChatHistoryAlwaysPrepending(r) == <<SystemMessage(r)>> \o RequestMessages(r)

\* const chatHistory = [...messages]; if (chatHistory.length === 0 ||
\* chatHistory[0].role !== "system") chatHistory.unshift({...}).  The stripe
\* route hands over messages as they are.
ChatHistory(r) ==
  LET copy == RequestMessages(r)
  IN IF r.variant # 3 /\ (Len(copy) = 0 \/ copy[1].role # "system")
     THEN <<SystemMessage(r)>> \o copy
     ELSE copy

MessagesLeftAliased(r, history) == history

\* messages after the handler ran: [...messages] is a copy, so unshift leaves
\* the request's array alone
MessagesLeft(r, history) == RequestMessages(r)

\* POST up to its return.  searchThrows, chatThrows: searchDocs or
\* chatEngine.chat raises; all of it runs inside try { } catch (error) that
\* answers 500 with the error's message.
POST ==
  \E r \in Requests, searchThrows \in BOOLEAN, chatThrows \in BOOLEAN :
    /\ request = NoRequest
    /\ request' = r
    /\ IF ~r.json \/ ~r.hasMessages
       THEN /\ response' = Json(500, "error.message")
            /\ raised' = IF ~r.json THEN "request.json" ELSE "messages.length"
            /\ extCalls' = <<>>
            /\ streamState' = "none"
            /\ chatHistory' = <<>>
            /\ reqMessages' = <<>>
       ELSE IF RejectsLastMessage(r.roles)
       THEN /\ response' = Json(400, "Last message is not a user message")
            /\ raised' = "none"
            /\ extCalls' = <<>>
            /\ streamState' = "none"
            /\ chatHistory' = <<>>
            /\ reqMessages' = RequestMessages(r)
       ELSE IF RejectsCustomerId(r.customerId)
       THEN /\ response' = Json(400, "Customer ID is required")
            /\ raised' = "none"
            /\ extCalls' = <<>>
            /\ streamState' = "none"
            /\ chatHistory' = <<>>
            /\ reqMessages' = RequestMessages(r)
       ELSE /\ extCalls' = CallsMade(r, searchThrows)
            /\ IF r.variant = 1 /\ searchThrows
               THEN /\ response' = Json(500, "error.message")
                    /\ raised' = "searchDocs"
                    /\ streamState' = "none"
                    /\ chatHistory' = <<>>
                    /\ reqMessages' = RequestMessages(r)
               ELSE /\ chatHistory' = ChatHistory(r)
                    /\ reqMessages' = MessagesLeft(r, ChatHistory(r))
                    /\ IF chatThrows
                       THEN /\ response' = Json(500, "error.message")
                            /\ raised' = "chatEngine.chat"
                            /\ streamState' = "none"
                       ELSE IF r.variant = 3
                       THEN /\ response' = DataStreamed
                            /\ raised' = "none"
                            /\ streamState' = "none"
                       ELSE /\ response' = Streamed
                            /\ raised' = "none"
                            /\ streamState' = "open"
    /\ UNCHANGED <<produced, body, closes>>
    /\ UNCHANGED <<rendererVars, appVars, copyVars, siteVars, lifeVars, loadVars>>

EnqueuedAlways(b, content) == Append(b, content)

\* if (content) { controller.enqueue(content) }
Enqueued(b, content) == IF content # "" THEN Append(b, content) ELSE b

\* One iteration of for await (const chunk of chatResponse)
Pump ==
  \E chunk \in ChunkKinds :
    /\ streamState = "open"
    /\ Len(produced) < MaxChunks
    /\ produced' = Append(produced, chunk)
    /\ body' = Enqueued(body, ChunkContent(chunk))
    /\ UNCHANGED <<request, response, extCalls, streamState, closes,
                   raised, chatHistory, reqMessages>>
    /\ UNCHANGED <<rendererVars, appVars, copyVars, siteVars, lifeVars, loadVars>>

\* The model's stream ends: controller.close()
StreamEnds ==
  /\ streamState = "open"
  /\ streamState' = "closed"
  /\ closes' = closes + 1
  /\ UNCHANGED <<request, response, extCalls, produced, body,
                 raised, chatHistory, reqMessages>>
  /\ UNCHANGED <<rendererVars, appVars, copyVars, siteVars, lifeVars, loadVars>>

\* The model's stream raises: controller.error(error) in variant 1; in
\* variant 2 the promise of start() rejects, which errors the stream as well
StreamFails ==
  /\ streamState = "open"
  /\ streamState' = "errored"
  /\ UNCHANGED <<request, response, extCalls, produced, body, closes,
                 raised, chatHistory, reqMessages>>
  /\ UNCHANGED <<rendererVars, appVars, copyVars, siteVars, lifeVars, loadVars>>

InitServer ==
  /\ Init

NextServer ==
  \/ POST
  \/ Pump
  \/ StreamEnds
  \/ StreamFails

SpecServer == InitServer /\ [][NextServer]_vars

\* ------------------------------------------------------------------ claims
\* The HTML strings formatAndHighlightMessage can return for content c
SanitizerOutputs(c) ==
  { formatAndHighlightMessage(c, FALSE, h).html : h \in BOOLEAN }

\* What a cache entry computed from content c can be: the formatting, or the
\* raw fallback
Outcomes(c) == SanitizerOutputs(c) \cup { AsHTML(c) }

\* The values the content of message i has had (it only grows)
ContentHistory(i) ==
  { SubSeq(messages[i].content, 1, n) : n \in 1..Len(messages[i].content) }

MountedPassInFlight == \E k \in 1..Len(passes) : passes[k].mounted

\* C1: in every reachable state the HTML assigned to the DOM for an assistant
\* message is an output of the sanitizer, never the raw message content.
C1_AssignedIsSanitizerOutput ==
  \A i \in AssistantIds(messages) :
    \E c \in ContentHistory(i) :
      InnerHTML(messages[i], formattedMessages) \in SanitizerOutputs(c)

\* C3: the cache holds no entry keyed by a non-assistant message id, and a
\* non-assistant message is displayed as its plain content.
C3_OnlyAssistantsFormatted ==
  /\ DOMAIN formattedMessages \subseteq AssistantIds(messages)
  /\ \A i \in (1..Len(messages)) \ AssistantIds(messages) :
       Rendered(messages[i], formattedMessages) =
         [as |-> "text", html |-> <<>>, text |-> messages[i].content]

\* C3 witness: a pass has written the cache of a conversation that holds user
\* messages next to a formatted assistant message.
C3_Witness ==
  /\ Len(messages) >= 3
  /\ DOMAIN formattedMessages # {}
  /\ ~MountedPassInFlight
  /\ messages[3].role = "user"

\* C4 (as stated): in every reachable state the cache entry of an assistant
\* message is derived from the message's current content.
C4_AlwaysCurrent ==
  \A i \in AssistantIds(messages) \cap DOMAIN formattedMessages :
    formattedMessages[i] \in Outcomes(messages[i].content)

\* C4 (amended): whenever no formatting pass for the current message list is in
\* flight, every assistant message has a cache entry and it is derived from the
\* message's current content.
C4_CurrentWhenSettled ==
  ~MountedPassInFlight =>
    \A i \in AssistantIds(messages) :
      /\ i \in DOMAIN formattedMessages
      /\ formattedMessages[i] \in Outcomes(messages[i].content)

\* C4 witness: the content grew while an older pass was still in flight, and the
\* pass for the grown content has written.
C4_Witness ==
  /\ ~MountedPassInFlight
  /\ Len(passes) > 0
  /\ Len(messages) = 2
  /\ Len(messages[2].content) = 2
  /\ formattedMessages[2] \in SanitizerOutputs(messages[2].content)
  /\ formattedMessages[2] \notin SanitizerOutputs(SubSeq(messages[2].content, 1, 1))

\* C5: every cache entry under the id of message m is the formatting, or the raw
\* fallback, of a content value m itself had, never of another message's content.
C5_EntryFromOwnContent ==
  \A i \in DOMAIN formattedMessages :
    /\ i \in 1..Len(messages)
    /\ \E c \in ContentHistory(i) : formattedMessages[i] \in Outcomes(c)

\* C5 witness: two assistant messages of different content, each with its own
\* entry in the cache.
C5_Witness ==
  /\ Len(messages) = 4
  /\ {2, 4} \subseteq DOMAIN formattedMessages
  /\ messages[2].content # messages[4].content
  /\ formattedMessages[2] \in SanitizerOutputs(messages[2].content)
  /\ formattedMessages[4] \in SanitizerOutputs(messages[4].content)
  /\ formattedMessages[2] # formattedMessages[4]

AllowedLeaf(l) == l.tag \in AllowedTags /\ l.attrs \subseteq AllowedAttrs

\* Every element of html, at any depth, has an allowed tag and allowed
\* attributes only, and nothing is carried as bare text
AllowedHTML(html) ==
  \A k \in 1..Len(html) :
    /\ AllowedLeaf(html[k])
    /\ html[k].tag # "#text"
    /\ \A j \in 1..Len(html[k].desc) : AllowedLeaf(html[k].desc[j])

C6_FailSoft ==
  ev.kind = "passDone" =>
    /\ DOMAIN formattedMessages = AssistantIds(messages)
    /\ \A i \in AssistantIds(messages) :
         IF i \in errLog.fmt
         THEN formattedMessages[i] = AsHTML(messages[i].content)
         ELSE formattedMessages[i] \in SanitizerOutputs(messages[i].content)

\* C6 witness: a pass over two assistant messages in which the first raised and
\* the second was formatted.
C6_Witness ==
  /\ ev.kind = "passDone"
  /\ Len(messages) = 4
  /\ errLog.fmt = {2}
  /\ formattedMessages[2] = AsHTML(messages[2].content)
  /\ formattedMessages[4] \in SanitizerOutputs(messages[4].content)
  /\ formattedMessages[4] # AsHTML(messages[4].content)

\* C7 (as stated): when the highlight step throws while a message is formatted,
\* the message's cache entry is its raw content.
C7_HighlightThrowFallsBackToRaw ==
  ev.kind = "passDone" =>
    \A i \in errLog.hl : formattedMessages[i] = AsHTML(messages[i].content)

HasTokenSpan(html) ==
  \E k \in 1..Len(html) : \E j \in 1..Len(html[k].desc) : IsTokenSpan(html[k].desc[j])

\* C7 (amended): when the highlight step throws while a message is formatted,
\* the error is caught in the highlight loop: the message's cache entry is its
\* sanitized HTML with the code left without token markup, the raw-content
\* fallback is not taken, and every other message is formatted as if nothing
\* had been thrown.
C7_HighlightThrowKeepsSanitized ==
  ev.kind = "passDone" =>
    /\ \A i \in errLog.hl :
         /\ i \notin errLog.fmt
         /\ formattedMessages[i] =
              AddLinkTargets(HighlightAll(Sanitize(MarkedParse(messages[i].content)), TRUE))
         /\ ~HasTokenSpan(formattedMessages[i])
         /\ AllowedHTML(formattedMessages[i])
    /\ \A j \in AssistantIds(messages) \ (errLog.hl \cup errLog.fmt) :
         formattedMessages[j] =
           formatAndHighlightMessage(messages[j].content, FALSE, FALSE).html

\* C7 witness: the highlighter threw in the second of two assistant messages
\* and the first one holds highlighted code.
C7_Witness ==
  /\ ev.kind = "passDone"
  /\ Len(messages) = 4
  /\ errLog.hl = {4}
  /\ errLog.fmt = {}
  /\ HasTokenSpan(formattedMessages[2])
  /\ formattedMessages[4] # <<>>

Buttons(n) == Cardinality({ k \in 1..Len(n.desc) : IsCopyButton(n.desc[k]) })

\* C10 (as stated): after two or more augmenter passes over the same subtree
\* every code block has exactly one copy control.
C10_OneControlPerCodeBlock ==
  \A i \in DOMAIN dom :
    dom[i].n >= 2 =>
      \A k \in 1..Len(dom[i].html) :
        dom[i].html[k].tag = "pre" => Buttons(dom[i].html[k]) = 1

\* C10 (what the augmenter does guarantee): no code block ever has two copy controls, and after any
\* number of augmenter passes over the same subtree a code block has exactly
\* one control when the augmenter's selector matches it as rendered (a pre with
\* a language class and without the marker attribute, holding a language-tagged
\* code element) and none otherwise.
C10_OneControlPerSelectedBlock ==
  \A i \in DOMAIN dom :
    \A k \in 1..Len(dom[i].html) :
      dom[i].html[k].tag = "pre" =>
        /\ Buttons(dom[i].html[k]) <= 1
        /\ dom[i].n >= 1 =>
             Buttons(dom[i].html[k]) =
               IF /\ Selected(InnerHTML(messages[i], formattedMessages)[k])
                  /\ HasLanguageCode(InnerHTML(messages[i], formattedMessages)[k])
               THEN 1
               ELSE 0

\* C10 (reachability of the case above): a subtree the augmenter has passed over twice, with one code
\* block holding its single control and another holding none.
C10_Witness ==
  \E i \in DOMAIN dom :
    /\ dom[i].n >= 2
    /\ \E k \in 1..Len(dom[i].html) :
         dom[i].html[k].tag = "pre" /\ Buttons(dom[i].html[k]) = 1
    /\ \E k \in 1..Len(dom[i].html) :
         dom[i].html[k].tag = "pre" /\ Buttons(dom[i].html[k]) = 0

\* C8: while the viewport is not pinned, neither new content of the assistant
\* message nor the re-render after its formatting issues a scroll.
C8_NoScrollWhenUnpinned ==
  ( /\ ~shouldAutoScroll
    /\ Len(messages) > 0
    /\ Last(messages).role = "assistant"
    /\ ev.kind \in {"firstByte", "token", "passDone"} ) => ~ev.scrolled

\* C8 witness: unpinned, the second chunk of the reply has been formatted and
\* rendered without a scroll, the viewport still away from the bottom.
C8_Witness ==
  /\ ~shouldAutoScroll
  /\ Len(messages) > 0
  /\ Last(messages).role = "assistant"
  /\ Len(Last(messages).content) = 2
  /\ ev = [kind |-> "passDone", scrolled |-> FALSE]
  /\ ~MountedPassInFlight
  /\ dist >= PinThreshold

\* C9: whenever a user message is appended the renderer scrolls to the bottom,
\* whatever the scroll position and whatever the role of the previous last message.
C9_UserAppendAlwaysScrolls == ev.kind = "send" => ev.scrolled

\* C11 (as stated): after an augmenter pass every code block of the subtree
\* carries the marker attribute and a copy control, whatever its language tag.
C11_EveryBlockMarkedWithControl ==
  \A i \in DOMAIN dom :
    dom[i].n >= 1 =>
      \A k \in 1..Len(dom[i].html) :
        dom[i].html[k].tag = "pre" =>
          /\ "data-copy-added" \in dom[i].html[k].attrs
          /\ Buttons(dom[i].html[k]) = 1

C13_ConfirmationIsTransient ==
  /\ cev.kind = "resolved" =>
       /\ copyButton = ShowSuccess(CreatedButton)
       /\ pendingTimers >= 1
       /\ clipboard = Trim(codeText)
  /\ cev.kind = "timer" => copyButton = CreatedButton
  /\ pendingTimers = 0 => copyButton = CreatedButton
  /\ copyButton \in {CreatedButton, ShowSuccess(CreatedButton)}
  /\ (copyButton # cev.before /\ ~copyButton.successIconHidden) =>
       cev.kind = "resolved"

\* C13 witness: after two or more clicks whose writes were all fulfilled, the
\* last timer has run on a control showing the confirmation and the control
\* is back in the copy state.
C13_Witness ==
  /\ clicks >= 2
  /\ cev.kind = "timer"
  /\ cev.before = ShowSuccess(CreatedButton)
  /\ pendingTimers = 0
  /\ pendingWrites = 0
  /\ copyErrors = 0
  /\ copyButton = CreatedButton

TokenSpans(n) == Cardinality({ k \in 1..Len(n.desc) : IsTokenSpan(n.desc[k]) })

C15_GrammarDecidesStyling ==
  \A i \in AssistantIds(messages) :
    LET r == formatAndHighlightMessage(messages[i].content, FALSE, FALSE)
    IN /\ ~r.threw
       /\ \A k \in 1..Len(r.html) :
            /\ r.html[k].txt = "fenceKnown" => TokenSpans(r.html[k]) = 1
            /\ r.html[k].txt \in {"fenceUnknown", "fenceNoLang"} =>
                 r.html[k] = Sanitize(<<MarkedPiece(r.html[k].txt)>>)[1]
            /\ r.html[k].txt = "link" =>
                 \E j \in 1..Len(r.html[k].desc) :
                   /\ r.html[k].desc[j].tag = "a"
                   /\ "target" \in r.html[k].desc[j].attrs
       /\ ( /\ i \in DOMAIN formattedMessages
            /\ i \notin errLog.fmt \cup errLog.hl ) => formattedMessages[i] = r.html

\* C15 witness: the cache entry of a reply holds a highlighted block next to
\* an unstyled block of an unknown language.
C15_Witness ==
  \E i \in DOMAIN formattedMessages :
    /\ messages[i].content = <<"fenceKnown", "fenceUnknown">>
    /\ errLog.fmt = {}
    /\ errLog.hl = {}
    /\ Len(formattedMessages[i]) = 2
    /\ TokenSpans(formattedMessages[i][1]) = 1
    /\ TokenSpans(formattedMessages[i][2]) = 0

\* The status transitions the claim lists
ListedTransitions ==
  { <<"ready", "submitted">>, <<"submitted", "streaming">>, <<"streaming", "ready">> }

\* C16: the status changes only by a listed transition or to error; a send
\* leaves ready for submitted, the first chunk leaves submitted for streaming,
\* the close leaves streaming for ready; a transport failure leaves the
\* message list as it was.
C16_StatusMovesAlong ==
  [][ /\ status' # status =>
           (<<status, status'>> \in ListedTransitions \/ status' = "error")
      /\ ev'.kind \in {"send", "keySubmit"} => (status = "ready" /\ status' = "submitted")
      /\ (status' = "error" /\ status # "error") => messages' = messages ]_vars

\* C17: whenever the status is submitted the loading phrase is displayed.
C17_PhraseWhileSubmitted == status = "submitted" => LoadingShown

\* Everything scheduled has run: the stream is closed, no formatting pass is
\* in flight and no animation frame is pending
Quiescent == status = "ready" /\ passes = <<>> /\ ~raf /\ Len(messages) > 0

\* C18: once the stream has closed and every scheduled pass has run, the
\* bubble of each reply shows the formatting of its whole content, piece by
\* piece in arrival order, and holds one copy control per code block of that
\* content and none elsewhere.
C18_FinalBubble ==
  Quiescent =>
    \A i \in AssistantIds(messages) :
      LET f == formatAndHighlightMessage(messages[i].content, FALSE, FALSE).html
      IN /\ formattedMessages[i] = f
         /\ Len(dom[i].html) = Len(messages[i].content)
         /\ \A k \in 1..Len(dom[i].html) :
              /\ dom[i].html[k].txt = messages[i].content[k]
              /\ Buttons(dom[i].html[k]) =
                   IF messages[i].content[k] \in {"fenceKnown", "fenceUnknown"}
                   THEN 1 ELSE 0

\* C18 (the part that holds): at quiescence the bubble of each reply is the
\* formatting of its whole content in arrival order, augmented by
\* addCopyButtons, and a reply without a code block has no copy control.
C18_FinalBubbleIsFormatting ==
  Quiescent =>
    \A i \in AssistantIds(messages) :
      LET f == formatAndHighlightMessage(messages[i].content, FALSE, FALSE).html
      IN /\ formattedMessages[i] = f
         /\ dom[i].html = addCopyButtons(f)
         /\ \A k \in 1..Len(dom[i].html) :
              /\ dom[i].html[k].txt = messages[i].content[k]
              /\ dom[i].html[k].tag # "pre" => Buttons(dom[i].html[k]) = 0

\* The request has the shape the endpoint documents: a JSON body with a
\* messages list ending in a user message and a customerId that is a number
WellFormed(r) ==
  /\ r.json
  /\ r.hasMessages
  /\ r.roles # <<>>
  /\ Last(r.roles) = "user"
  /\ r.customerId.present

\* No external service failed while the request was handled
ServicesUp == response.kind = "json" => response.status # 500

\* C19: a well-formed request, whatever number its customerId is, is answered
\* with a streamed body and not with an error response (the external
\* services being up).
C19_WellFormedIsStreamed ==
  (request # NoRequest /\ WellFormed(request) /\ ServicesUp) =>
    response \in {Streamed, DataStreamed}

\* The non-empty contents of the chunks the model has yielded, in order
ProducedText == SelectSeq(MapSeq(ChunkContent, produced), LAMBDA c : c # "")

C20_ErroredReached ==
  /\ streamState = "errored"
  /\ body # <<>>

\* The body the stripe route's README documents: {query, customerId, history},
\* with a customer id such as 123 and no messages list
ReadmeBody(r) ==
  /\ r.variant = 3
  /\ r.json
  /\ ~r.hasMessages
  /\ r.customerId.present
  /\ r.customerId.value # 0

\* C21: a POST whose body has the structure the README documents is answered
\* with a streamed response, not with a 400 or a 500.
C21_ReadmeBodyIsStreamed ==
  (request # NoRequest /\ ReadmeBody(request)) =>
    response \in {Streamed, DataStreamed}

\* The assistant messages in state FormattingFailed: the last write of the
\* cache stored their raw content because their formatting raised
FormattingFailed ==
  { i \in errLog.fmt : i \in DOMAIN formattedMessages
                        /\ formattedMessages[i] = AsHTML(messages[i].content) }

\* A step started a formatting pass
PassStarted == Len(passes') = Len(passes) + 1

\* C22 (as stated): no pass started after the formatting of a message failed
\* formats that message again.
C22_FailedNeverReformatted ==
  [][ PassStarted =>
        \A i \in FormattingFailed : i \notin FormattedIds(Last(passes').snap) ]_vars

\* C22 (amended): a message whose formatting failed gets no further attempt
\* while the message list stays as it is (passes only end); every change of the
\* message list starts one pass over the new list, and that pass formats the
\* failed message again.
C22_FailedRetriedOnChange ==
  [][ /\ messages' = messages =>
           (passes' = passes \/ \E k \in 1..Len(passes) : passes' = RemoveAt(passes, k))
      /\ messages' # messages =>
           /\ PassStarted
           /\ Last(passes') = [snap |-> messages', mounted |-> TRUE]
           /\ FormattingFailed \subseteq FormattedIds(Last(passes').snap) ]_vars

\* C22 witness: a message is shown by its raw content after its formatting
\* failed, and a pass started since by a change of the list is formatting it
C22_Witness ==
  \E i \in FormattingFailed :
    \E k \in 1..Len(passes) :
      /\ passes[k].mounted
      /\ passes[k].snap = messages
      /\ i \in FormattedIds(passes[k].snap)

\* A step in which a pass wrote the cache
CacheWritten == ev'.kind = "passDone"

\* C23: every write of the cache is made by a pass over the current message
\* list and stores what formatting the current contents gives, so a pass over
\* older content never writes after the list has moved on, whatever the order
\* in which overlapping passes end; and no pass is cancelled: a change of the
\* message list leaves every pass in flight running on the list it started on.
C23_LatestContentWins ==
  [][ /\ CacheWritten =>
           /\ \E k \in 1..Len(passes) :
                /\ passes[k].snap = messages
                /\ passes' = RemoveAt(passes, k)
           /\ formattedMessages' = NewFormattedMessages(messages, {}, {})
      /\ messages' # messages =>
           /\ Len(passes') = Len(passes) + 1
           /\ \A k \in 1..Len(passes) : passes'[k].snap = passes[k].snap ]_vars

\* C23 witness: two passes overlapped; the one on the newer content wrote
\* first, then the one on the older content ended and the cache still holds
\* the formatting of the newest content
C23_Witness ==
  /\ ev.kind = "passDropped"
  /\ passes = <<>>
  /\ Len(messages) > 0
  /\ Last(messages).role = "assistant"
  /\ Len(Last(messages).content) > 1
  /\ formattedMessages = NewFormattedMessages(messages, {}, {})

\* C24: the cache changes only when a pass writes it, and a write replaces
\* the whole map by the map that one pass computed: the keys are exactly the
\* assistant message ids of the list the pass ran on and every value is the
\* one that pass computed from that list, so nothing of the previous map is
\* kept.
C24_WholeMapReplaced ==
  [][ /\ formattedMessages' # formattedMessages => CacheWritten
      /\ CacheWritten =>
           \E k \in 1..Len(passes) :
             /\ passes' = RemoveAt(passes, k)
             /\ DOMAIN formattedMessages' = AssistantIds(passes[k].snap)
             /\ \A i \in DOMAIN formattedMessages' :
                  formattedMessages'[i] =
                    FormatOrFallback(ContentOf(passes[k].snap, i), FALSE, FALSE) ]_vars

\* C24 witness: a pass has just written a map of two entries, the second
\* computed from a reply of two chunks, over a map written for shorter lists
C24_Witness ==
  /\ ev.kind = "passDone"
  /\ DOMAIN formattedMessages = {2, 4}
  /\ Len(messages) = 4
  /\ Len(messages[4].content) = 2

\* C25: the pinned flag is true initially; a handled scroll event sets it to
\* "the distance from the bottom is strictly less than 100 pixels" (100 itself
\* is not pinned, 99 is), and no other step changes it, whatever content is
\* added.
C25_PinnedIffWithinThreshold ==
  [][ /\ ev'.kind = "handleScroll" => (shouldAutoScroll' <=> dist < 100)
      /\ ev'.kind # "handleScroll" => shouldAutoScroll' = shouldAutoScroll
      /\ ev.kind = "init" => shouldAutoScroll ]_vars

\* C25 witness: a scroll event was handled at exactly 100 pixels from the
\* bottom and left the flag off, with content shown
C25_Witness ==
  /\ ev.kind = "handleScroll"
  /\ dist = 100
  /\ ~shouldAutoScroll
  /\ Len(messages) > 1

\* C25 (reachability): content was added between scroll events while the
\* viewport lay beyond the threshold and the flag stayed on
C25_FlagKeptWhileContentGrows ==
  /\ ev.kind \in {"token", "firstByte"}
  /\ dist >= 100
  /\ shouldAutoScroll

\* C26: a pass writes the cache only if, when it ends, its message list is
\* still the current one and the component is mounted; a pass whose list was
\* replaced, or that ends after the unmount, changes nothing; and once the
\* message list stops changing the pass over the final list ends and writes,
\* so that the cache is the formatting of the final list from then on.
C26_OnlyCurrentPassWrites ==
  /\ [][ /\ \A k \in 1..Len(passes') :
              passes'[k].mounted <=> (listMounted' /\ passes'[k].snap = messages')
         /\ CacheWritten =>
              \E k \in 1..Len(passes) :
                /\ passes[k].mounted
                /\ passes[k].snap = messages
                /\ passes' = RemoveAt(passes, k)
         /\ ev'.kind = "passDropped" =>
              /\ formattedMessages' = formattedMessages
              /\ \E k \in 1..Len(passes) :
                   ~passes[k].mounted /\ passes' = RemoveAt(passes, k)
         /\ ~listMounted => formattedMessages' = formattedMessages ]_vars
  /\ <>[](listMounted =>
            /\ ~MountedPassInFlight
            /\ formattedMessages = NewFormattedMessages(messages, {}, {}))

\* C26 witness: the component was unmounted while the pass over the current
\* list was in flight, and that pass has ended without writing
C26_Witness ==
  /\ ~listMounted
  /\ ev.kind = "passDropped"
  /\ passes = <<>>
  /\ formattedMessages # NewFormattedMessages(messages, {}, {})

\* A step in which the chat input started a send
SendStarted == ev'.kind \in {"send", "keySubmit"}

\* C27: no action on the chat input starts a send while the status is
\* submitted or streaming, and none starts a send of a blank input.
C27_InputGuardsSend ==
  [][ SendStarted =>
        /\ status \notin {"submitted", "streaming"}
        /\ Last(messages').content \notin BlankInputs ]_vars

\* C27 (the button alone): a send started by the button is started from an
\* idle status with an input that is not blank
C27_ButtonGuardsSend ==
  [][ ev'.kind = "send" =>
        /\ status \in {"ready", "error"}
        /\ Last(messages').content \notin BlankInputs ]_vars

\* The request passed both checks of the endpoint
Validated(r) ==
  /\ r.roles # <<>>
  /\ Last(r.roles) = "user"
  /\ r.customerId.present
  /\ r.customerId.value # 0

\* C28: an empty list or a last message that is not a user message is
\* answered 400 "Last message is not a user message"; otherwise a missing or
\* falsy customerId is answered 400 "Customer ID is required"; a rejected
\* request has made no external call; whatever raised before the stream
\* started is answered 500 with the error's message, and nothing else is.
C28_ChecksBeforeCalls ==
  request # NoRequest =>
    /\ raised # "none" <=> response = Json(500, "error.message")
    /\ raised \in {"searchDocs", "chatEngine.chat"} => Validated(request)
    /\ raised \in {"request.json", "messages.length"} => extCalls = <<>>
    /\ (raised = "none" /\ (request.roles = <<>> \/ Last(request.roles) # "user")) =>
         /\ response = Json(400, "Last message is not a user message")
         /\ extCalls = <<>>
    /\ (raised = "none" /\ request.roles # <<>> /\ Last(request.roles) = "user"
          /\ (~request.customerId.present \/ request.customerId.value = 0)) =>
         /\ response = Json(400, "Customer ID is required")
         /\ extCalls = <<>>
    /\ (raised = "none" /\ Validated(request)) => response.status = 200
    /\ response.status = 400 => (extCalls = <<>> /\ streamState = "none")

\* C28 witness: a request whose last message is a user message and whose
\* customerId is the number 0 has been rejected without any external call
C28_Witness ==
  /\ request # NoRequest
  /\ request.roles # <<>>
  /\ Last(request.roles) = "user"
  /\ request.customerId.present
  /\ response = Json(400, "Customer ID is required")
  /\ extCalls = <<>>

\* C28 (reachability): retrieval raised and the request was answered 500
C28_RetrievalRaised ==
  /\ raised = "searchDocs"
  /\ response.status = 500
  /\ extCalls = <<"searchDocs">>

\* The chat route accepted the request and handed a history to the model
AcceptedByChatRoute == request.variant = 1 /\ response = Streamed

\* The server's system message with the context retrieved for the request's
\* last message
ServerSystemMessage ==
  [role |-> "system", idx |-> 0, prompt |-> TRUE, context |-> Len(request.roles)]

\* C29 (as stated): for every accepted request the history handed to the
\* model is the server's system message followed by the request's messages
\* in order, and the request's list is as it was.
C29_HistoryStartsWithServerPrompt ==
  AcceptedByChatRoute =>
    /\ chatHistory = <<ServerSystemMessage>> \o RequestMessages(request)
    /\ reqMessages = RequestMessages(request)

\* C29 (amended): for every accepted request whose first message is not a
\* system message, the history is the server's system message followed by the
\* request's messages in order; when the first message is a system message the
\* history is the request's messages as they are, with no server message; in
\* both cases the request's list is as it was.
C29_HistoryPrependsUnlessSystemFirst ==
  AcceptedByChatRoute =>
    /\ request.roles[1] # "system" =>
         chatHistory = <<ServerSystemMessage>> \o RequestMessages(request)
    /\ request.roles[1] = "system" => chatHistory = RequestMessages(request)
    /\ reqMessages = RequestMessages(request)

\* C29 witness: a conversation of three messages was accepted and the model
\* got four, the server's system message first
C29_Witness ==
  /\ AcceptedByChatRoute
  /\ Len(request.roles) = 3
  /\ Len(chatHistory) = 4
  /\ chatHistory[1] = ServerSystemMessage
  /\ chatHistory[4].idx = 3

\* The phrase after p in the cycle
NextPhrase(p) ==
  CASE p = Phrases[1] -> Phrases[2]
    [] p = Phrases[2] -> Phrases[3]
    [] OTHER -> Phrases[1]

\* A step in which the interval's callback ran
TickTaken == currentIndex' # currentIndex /\ status' = status

\* C30: the phrase is one of the three; when a submitted phase begins the
\* phrase is the first one; every tick moves the phrase shown to the next one
\* of the cycle; the phrase changes only within a submitted phase.
C30_PhraseCyclesFromFirst ==
  [][ /\ loadingMessage' \in { Phrases[k] : k \in 1..Len(Phrases) }
      /\ (status # "submitted" /\ status' = "submitted") =>
           loadingMessage' = Phrases[1]
      /\ TickTaken => loadingMessage' = NextPhrase(loadingMessage)
      /\ loadingMessage' # loadingMessage =>
           (status = "submitted" /\ status' = "submitted") ]_vars

\* C30 (the part that holds): the phrase is one of the three, the interval is
\* set exactly while the status is submitted, only a tick changes the phrase,
\* and a tick shows the phrase after the one at the effect's own index, which
\* is 0 when the phase begins.
C30_PhraseFollowsIndex ==
  /\ [](interval <=> status = "submitted")
  /\ [][ /\ loadingMessage' \in { Phrases[k] : k \in 1..Len(Phrases) }
         /\ (status # "submitted" /\ status' = "submitted") =>
              (currentIndex' = 0 /\ loadingMessage' = loadingMessage)
         /\ TickTaken =>
              /\ status = "submitted"
              /\ loadingMessage' = NextPhrase(Phrases[currentIndex + 1])
         /\ loadingMessage' # loadingMessage => TickTaken ]_vars
====
